---- MODULE Spec2Model ----
(***************************************************************************)
(* Chat request pipeline of the SilentR backend: the chat routes           *)
(* (rate governor, validation, context assembly, primary/fallback provider *)
(* calls, stream relay, history service) and the Redis cache helpers.      *)
(*                                                                         *)
(* Every await of the handlers is a suspension point: a handler is cut     *)
(* into one action per synchronous segment, so that requests interleave    *)
(* exactly where the single-threaded event loop lets them.                 *)
(***************************************************************************)
EXTENDS Integers, Sequences, FiniteSets, TLC

(***************************************************************************)
(* Bounds of the model.                                                    *)
(***************************************************************************)
MaxSubs == 2        \* chat submissions (POST /api/chat) over a run
MaxActive == 2      \* chat submissions in flight at the same time
MaxBurst == 4       \* chat submissions over a run of the rate governor alone
MaxSlots == 4       \* request slots: chat submissions in flight there
MaxReads == 2       \* history reads (GET /api/chat/history) over a run
MaxReading == 1     \* history reads in flight at the same time
MaxWrites == 1      \* chat submissions over a run of the history service
MaxDeltas == 3      \* a stream delivers chunks while fewer deltas were forwarded
MaxTicks == 1       \* clock advances over a run
MaxRateTicks == 2   \* clock advances over a run of the rate governor alone
MaxPage == 2        \* page and limit query values range over 1..MaxPage
MaxSeed == 7        \* turns in the collection when the server starts
MaxHttp == 3
MaxWire == 3
MaxRelaySubs == 1        \* requests to the application over a run of its routing alone
LimiterMax == 2     \* max of the application-wide limiter (100 in server.js)

Users == {"u1", "u2"}
Subs == 1..MaxSlots
Reads == 1..MaxReading
Pages == 1..MaxPage
Limits == 1..MaxPage
\* Amounts by which the clock advances, in milliseconds: half a second and
\* the rate window for the rate governor, a third of the expiry of a cached
\* page and that expiry for the history service.
RateSteps == {500, 900000}
CacheSteps == {100000, 300000}

(***************************************************************************)
(* Configuration.                                                          *)
(***************************************************************************)
\* RATE_LIMIT_WINDOW_MS unset: the default.
RATE_LIMIT_WINDOW == 900000
\* parseInt(process.env.RATE_LIMIT_MAX_REQUESTS) || 100: the model runs with
\* RATE_LIMIT_MAX_REQUESTS=2 in the environment, a bound of the model.
MAX_REQUESTS == 2
\* Expiry handed to setCache by the history route, in seconds.
HISTORY_TTL == 300
\* Number of stored turns fetched as context.
CONTEXT_TURNS == 5

PRIMARY_MODEL == "mistralai/Mistral-7B-Instruct-v0.2"
FALLBACK_MODEL == "meta-llama/Llama-2-7b-chat-hf"

\* The generation parameters of a provider call.
GenParams ==
    [max_new_tokens |-> 1000, temperature |-> "0.7", top_p |-> "0.95",
     return_full_text |-> FALSE, stream |-> TRUE]

(***************************************************************************)
(* Arithmetic helpers.                                                     *)
(***************************************************************************)
\* Math.ceil(a / b) for b > 0, a any integer.
Ceil(a, b) == IF a % b = 0 THEN a \div b ELSE (a \div b) + 1

Min(a, b) == IF a <= b THEN a ELSE b

(***************************************************************************)
(* Request inputs.                                                         *)
(***************************************************************************)
\* Bodies' message fields as sent by callers.
Messages == {"", " ", "hi"}

\* body("message").trim(): the sanitizer rewrites req.body.message.
Trim(m) == IF m = " " THEN "" ELSE m

\* Errors with which an axios.post can reject.
ProviderErrors ==
    { [code |-> "ECONNABORTED", hasResponse |-> FALSE, status |-> 0, msg |-> "timeout"],
      [code |-> "ERR_BAD_RESPONSE", hasResponse |-> TRUE, status |-> 503, msg |-> "unavailable"],
      [code |-> "ECONNRESET", hasResponse |-> FALSE, status |-> 0, msg |-> "reset"] }

NoError == [code |-> "", hasResponse |-> FALSE, status |-> 0, msg |-> ""]

\* Lines of a chunk of the provider stream, after chunk.toString().split("\n"):
\* prefix  - the line starts with "data: "
\* parses  - JSON.parse of the rest succeeds
\* text    - the generated_text field of the parsed frame ("" when it is
\*           absent, null or empty: all falsy)
Frame(t) == [prefix |-> TRUE, parses |-> TRUE, text |-> t]
Malformed == [prefix |-> TRUE, parses |-> FALSE, text |-> ""]
Blank == [prefix |-> FALSE, parses |-> FALSE, text |-> ""]

Chunks ==
    { <<Frame("a"), Malformed, Frame("b")>>,
      <<Blank, Frame("")>> }

\* The provider's stream on the wire is a sequence of event frames, each the
\* line "data: <json>" and an empty line.  The transport hands the stream to
\* the data handler in chunks whose boundaries it chooses: a frame arrives
\* whole, or cut inside "data: " ("prefix"), or cut inside its JSON
\* ("payload"), the rest beginning the next chunk.
WireFrames == {Frame("a"), Frame("b"), Frame(""), Malformed}
Cuts == {"prefix", "payload"}
Arrivals == {"whole"} \cup Cuts
WireBatches == {<<>>} \cup {<<f>> : f \in WireFrames} \cup {<<Malformed, f>> : f \in WireFrames}

\* chunk.toString().split("\n") of a frame that arrives whole: its line and
\* the empty line.
RECURSIVE WholeLines(_)
WholeLines(frames) ==
    IF frames = <<>> THEN <<>>
    ELSE <<Head(frames), Blank>> \o WholeLines(Tail(frames))

\* The last line of a chunk that ends inside a frame: cut inside the JSON it
\* starts with "data: " and JSON.parse throws; cut inside "data: " it does
\* not start with "data: ".
HeadLine(cut) == IF cut = "payload" THEN Malformed ELSE Blank

\* The first lines of the chunk that brings the rest of a cut frame: the rest
\* does not start with "data: "; then the empty line.
TailLines == <<Blank, Blank>>

(***************************************************************************)
(* Events written to the caller's sink with res.write.                     *)
(***************************************************************************)
Delta(c) == [type |-> "delta", content |-> c]
DoneMarker == [type |-> "done", content |-> "[DONE]"]
ErrorEvent(e) == [type |-> "error", content |-> e]

(***************************************************************************)
(* State.                                                                  *)
(***************************************************************************)
VARIABLES
    now,              \* Date.now(), milliseconds
    ticks,            \* clock advances so far
    rateLimitCache,   \* the Map userId -> {count, timestamp}
    store,            \* the Chat collection, in insertion order
    cache,            \* Redis: key -> {value, expireAt}
    sub,              \* the chat submissions in flight or just answered
    rd,               \* the history reads in flight or just answered
    arrivals,         \* requests received so far: [chat |-> n, history |-> n]
    checks,           \* the admission checks made so far, in order
    written,          \* key -> size of the collection when the key was last set
    app,              \* the application's routing: the limiter's hits, the requests answered
    wire              \* per submission, what the provider has put on its stream so far

vars == <<now, ticks, rateLimitCache, store, cache, sub, rd, arrivals, checks, written, app, wire>>

\* A function as a finite map: key set is its DOMAIN.
EmptyMap == [k \in {} |-> 0]
MapSet(m, k, v) == [x \in (DOMAIN m) \cup {k} |-> IF x = k THEN v ELSE m[x]]
MapDelete(m, ks) == [x \in (DOMAIN m) \ ks |-> m[x]]

NewSub ==
    [id |-> 0, pc |-> "idle", user |-> "", message |-> "", messages |-> <<>>, prompt |-> "",
     calls |-> <<>>, provider |-> "", fullResponse |-> "",
     sink |-> <<>>, ends |-> 0, status |-> 0, body |-> <<>>,
     gone |-> FALSE, goneAt |-> 0, primaryError |-> NoError, fallbackError |-> NoError,
     outcome |-> "", retryAfter |-> 0, deleteFailed |-> FALSE]

NewRead ==
    [id |-> 0, pc |-> "idle", user |-> "", page |-> 1, limit |-> 1, chats |-> <<>>, total |-> 0,
     status |-> 0, body |-> <<>>, hit |-> FALSE, seenAtFind |-> 0, seenAtCount |-> 0, answered |-> {},
     cachedWith |-> 0, cacheErrors |-> {}]

\* The collection outlives the server: the turns it holds at start.  Turn i
\* was saved by an earlier run (sub 0); the second one belongs to u2.
SeedTurn(i) ==
    [user_id |-> IF i = 2 THEN "u2" ELSE "u1", message |-> "q" \o ToString(i),
     response |-> "r" \o ToString(i), timestamp |-> i, sub |-> 0]

SeedStore(n) == [i \in 1..n |-> SeedTurn(i)]

\* The provider's stream of one call before anything was sent: the frames put
\* on the wire whole so far, and the frame whose first part only has reached
\* the data handler.
NoFrame == <<>>
NoWire == [sent |-> <<>>, open |-> NoFrame]

Init ==
    /\ now = 0
    /\ ticks = 0
    /\ rateLimitCache = EmptyMap
    /\ store \in {SeedStore(n) : n \in {0, MaxSeed}}
    /\ cache = EmptyMap
    /\ sub = [s \in Subs |-> NewSub]
    /\ rd = [r \in Reads |-> NewRead]
    /\ arrivals = [chat |-> 0, history |-> 0]
    /\ checks = <<>>
    /\ written = EmptyMap
    /\ app = [hits |-> 0, log |-> <<>>]
    /\ wire = [s \in Subs |-> NoWire]


(***************************************************************************)
(* Responses.                                                              *)
(***************************************************************************)
\* res.write(ev): the first write commits the headers with status 200.
Write(r, ev) ==
    [r EXCEPT !.sink = Append(@, ev), !.status = IF @ = 0 THEN 200 ELSE @]

\* res.end(): closes the sink.
End(r, how) ==
    [r EXCEPT !.ends = @ + 1, !.pc = "done", !.outcome = how,
              !.status = IF @ = 0 THEN 200 ELSE @]

\* res.status(code).json(body): sends the body and closes the sink.
Json(r, code, b, how) ==
    [r EXCEPT !.status = code, !.body = b, !.ends = @ + 1, !.pc = "done",
              !.outcome = how]

(***************************************************************************)
(* Cache helpers (utils/cache): the Redis client's get, set with EX, del.  *)
(***************************************************************************)
\* JSON.stringify / JSON.parse of a value that is sent as JSON anyway.
Stringify(v) == <<"json", v>>
Parse(t) == t[2]

\* GET: the value of a key that is present and has not expired, else nil.
Nil == <<>>
RedisGet(c, key, t) ==
    IF key \in DOMAIN c /\ t < c[key].expireAt THEN c[key].value ELSE Nil

\* SET key value EX seconds.
RedisSet(c, key, value, seconds, t) ==
    MapSet(c, key, [value |-> value, expireAt |-> t + seconds * 1000])

\* DEL key: removes the key of exactly that name; it matches no pattern.
RedisDel(c, key) == MapDelete(c, {key})

\* getCache(key): the parsed value, or null on a miss and on a Redis error
\* (found is FALSE for null).
getCache(c, key, t, ok) ==
    IF ok /\ RedisGet(c, key, t) # Nil
    THEN [found |-> TRUE, data |-> Parse(RedisGet(c, key, t))]
    ELSE [found |-> FALSE, data |-> <<>>]

\* setCache(key, value, expireTime): a Redis error is logged and swallowed.
setCache(c, key, value, expireTime, t, ok) ==
    IF ok THEN RedisSet(c, key, Stringify(value), expireTime, t) ELSE c

\* deleteCache(key): a Redis error is logged and swallowed.
deleteCache(c, key, ok) == IF ok THEN RedisDel(c, key) ELSE c

\* `chat_history:${userId}:${page}:${limit}`
HistoryKey(userId, page, limit) ==
    "chat_history:" \o userId \o ":" \o ToString(page) \o ":" \o ToString(limit)

\* `chat_history:${userId}:*`
InvalidationKey(userId) == "chat_history:" \o userId \o ":*"

(***************************************************************************)
(* Chat collection queries.                                                *)
(***************************************************************************)
\* new Chat({user_id, message, response}); the creation timestamp orders the
\* turns, and the turns of the collection have distinct timestamps that grow
\* in insertion order: a turn's timestamp is its insertion rank.  sub is
\* the submission that saved it (not a field of the document).
NewChat(userId, message, response, s, coll) ==
    [user_id |-> userId, message |-> message, response |-> response,
     timestamp |-> Len(coll) + 1, sub |-> s]

\* Chat.find({user_id: userId}): the matching documents, as a set.
FindByUser(coll, userId) == {coll[i] : i \in {j \in DOMAIN coll : coll[j].user_id = userId}}

\* .sort({timestamp: -1}): newest first.
RECURSIVE SortNewestFirst(_)
SortNewestFirst(docs) ==
    IF docs = {} THEN <<>>
    ELSE LET newest == CHOOSE d \in docs : \A e \in docs : e.timestamp <= d.timestamp
         IN <<newest>> \o SortNewestFirst(docs \ {newest})

\* .skip(n).limit(k) of a sorted result.
SkipLimit(sorted, n, k) == SubSeq(sorted, n + 1, Min(Len(sorted), n + k))

\* Chat.countDocuments({user_id: userId})
CountDocuments(coll, userId) == Cardinality({j \in DOMAIN coll : coll[j].user_id = userId})

(***************************************************************************)
(* Rate governor.                                                          *)
(***************************************************************************)
\* Purge that deletes nothing.
Purge_KeepsAll(m, t) == m

\* "Clean up old entries": deletes every entry older than the window.
Purge(m, t) ==
    MapDelete(m, {k \in DOMAIN m : t - m[k].timestamp > RATE_LIMIT_WINDOW})

\* The seconds of the 429 message.
RetryAfter(entry, t) == Ceil(RATE_LIMIT_WINDOW - (t - entry.timestamp), 1000)

\* rateLimit that denies only above the maximum (count > MAX_REQUESTS).
rateLimit_AdmitsAtMax(m, userId, t) ==
    LET live == Purge(m, t) IN
    IF userId \in DOMAIN live
    THEN IF live[userId].count > MAX_REQUESTS
         THEN [map |-> live, admitted |-> FALSE,
               retryAfter |-> RetryAfter(live[userId], t)]
         ELSE [map |-> MapSet(live, userId,
                              [live[userId] EXCEPT !.count = @ + 1]),
               admitted |-> TRUE, retryAfter |-> 0]
    ELSE [map |-> MapSet(live, userId, [count |-> 1, timestamp |-> t]),
          admitted |-> TRUE, retryAfter |-> 0]

\* rateLimit that admits a request of a user with an entry without counting it.
rateLimit_LostIncrement(m, userId, t) ==
    LET live == Purge(m, t) IN
    IF userId \in DOMAIN live
    THEN IF live[userId].count >= MAX_REQUESTS
         THEN [map |-> live, admitted |-> FALSE,
               retryAfter |-> RetryAfter(live[userId], t)]
         ELSE [map |-> live, admitted |-> TRUE, retryAfter |-> 0]
    ELSE [map |-> MapSet(live, userId, [count |-> 1, timestamp |-> t]),
          admitted |-> TRUE, retryAfter |-> 0]

\* rateLimit whose denial restarts the user's window.
rateLimit_DenialRestartsWindow(m, userId, t) ==
    LET live == Purge(m, t) IN
    IF userId \in DOMAIN live
    THEN IF live[userId].count >= MAX_REQUESTS
         THEN [map |-> MapSet(live, userId, [live[userId] EXCEPT !.timestamp = t]),
               admitted |-> FALSE,
               retryAfter |-> RetryAfter(live[userId], t)]
         ELSE [map |-> MapSet(live, userId,
                              [live[userId] EXCEPT !.count = @ + 1]),
               admitted |-> TRUE, retryAfter |-> 0]
    ELSE [map |-> MapSet(live, userId, [count |-> 1, timestamp |-> t]),
          admitted |-> TRUE, retryAfter |-> 0]

\* rateLimit(req, res, next) for userId at time t on map m: the map it leaves,
\* whether next() is called, and the seconds of the 429 message otherwise.
rateLimit(m, userId, t) ==
    LET live == Purge(m, t) IN
    IF userId \in DOMAIN live
    THEN IF live[userId].count >= MAX_REQUESTS
         THEN [map |-> live, admitted |-> FALSE,
               retryAfter |-> RetryAfter(live[userId], t)]
         ELSE [map |-> MapSet(live, userId,
                              [live[userId] EXCEPT !.count = @ + 1]),
               admitted |-> TRUE, retryAfter |-> 0]
    ELSE [map |-> MapSet(live, userId, [count |-> 1, timestamp |-> t]),
          admitted |-> TRUE, retryAfter |-> 0]


(***************************************************************************)
(* Context assembler.                                                      *)
(***************************************************************************)
UserTurn(c) == [role |-> "user", content |-> c]
AssistantTurn(c) == [role |-> "assistant", content |-> c]

\* ExpandTurns that puts the stored turns in chronological order.
RECURSIVE ExpandTurns_OldestFirst(_)
ExpandTurns_OldestFirst(chats) ==
    IF chats = <<>> THEN <<>>
    ELSE ExpandTurns_OldestFirst(Tail(chats))
         \o <<UserTurn(Head(chats).message), AssistantTurn(Head(chats).response)>>

\* chatHistory.map(chat => [user turn, assistant turn]).flat()
RECURSIVE ExpandTurns(_)
ExpandTurns(chats) ==
    IF chats = <<>> THEN <<>>
    ELSE <<UserTurn(Head(chats).message), AssistantTurn(Head(chats).response)>>
         \o ExpandTurns(Tail(chats))

\* The message sequence: the expanded history, then the new message.
BuildMessages(chats, message) == Append(ExpandTurns(chats), UserTurn(message))

\* One turn of the prompt: user turns are wrapped in the instruction markers.
FormatTurn(msg) ==
    IF msg.role = "user" THEN "<s>[INST] " \o msg.content \o " [/INST]"
    ELSE msg.content

\* messages.map(FormatTurn).join("\n")
RECURSIVE JoinTurns(_)
JoinTurns(msgs) ==
    IF msgs = <<>> THEN ""
    ELSE IF Len(msgs) = 1 THEN FormatTurn(msgs[1])
    ELSE FormatTurn(msgs[1]) \o "\n" \o JoinTurns(Tail(msgs))

\* The request of one axios.post.
ProviderCall(model, prompt) ==
    [model |-> model, inputs |-> prompt, parameters |-> GenParams]

(***************************************************************************)
(* Chat submission: POST /api/chat.                                        *)
(***************************************************************************)
InFlight == {s \in Subs : sub[s].pc \notin {"idle", "done"}}

\* A request arrives: auth sets req.user, the validation chain trims the
\* message.  It takes the first slot that is free or holds an answered
\* request.
Arrive(s, u, m) ==
    /\ sub[s].pc \in {"idle", "done"}
    /\ \A t \in 1..(s - 1) : t \in InFlight
    /\ arrivals' = [arrivals EXCEPT !.chat = @ + 1]
    /\ sub' = [sub EXCEPT ![s] = [NewSub EXCEPT !.id = arrivals.chat + 1,
                                                !.pc = "validated", !.user = u,
                                                !.message = Trim(m)]]
    /\ wire' = [wire EXCEPT ![s] = NoWire]
    /\ UNCHANGED <<now, ticks, rateLimitCache, store, cache, rd, checks, written, app>>

\* Arrivals of the whole service.
Submit(s, u, m) ==
    /\ arrivals.chat < MaxSubs
    /\ Cardinality(InFlight) < MaxActive
    /\ Arrive(s, u, m)

\* Arrivals beside the history service: valid messages.
SubmitValid(s, u) ==
    /\ arrivals.chat < MaxWrites
    /\ Submit(s, u, "hi")

\* Arrivals when only the rate governor runs: the handlers do not progress.
Burst(s, u, m) ==
    /\ arrivals.chat < MaxBurst
    /\ Arrive(s, u, m)

\* handleValidationErrors: notEmpty() failed on the trimmed message.
ValidationFails(r) == r.message = ""

\* The 429 body of rateLimit.
RateLimitBody(seconds) ==
    [error |-> "Rate limit exceeded", message |-> "Please wait " \o ToString(seconds) \o " seconds before trying again"]

\* The synchronous run from handleValidationErrors through rateLimit into the
\* route handler, up to its first await (Chat.find).
ChatMiddleware(s) ==
    /\ sub[s].pc = "validated"
    /\ LET r == sub[s]
           rl == rateLimit(rateLimitCache, r.user, now)
       IN IF ValidationFails(r)
          THEN /\ sub' = [sub EXCEPT ![s] =
                            Json(r, 400, [errors |-> <<"Message cannot be empty">>], "invalid")]
               /\ UNCHANGED <<rateLimitCache, checks>>
          ELSE /\ rateLimitCache' = rl.map
               /\ checks' = Append(checks, [user |-> r.user, time |-> now,
                                            admitted |-> rl.admitted])
               /\ sub' = [sub EXCEPT ![s] =
                            IF rl.admitted
                            THEN [r EXCEPT !.pc = "find"]
                            ELSE Json([r EXCEPT !.retryAfter = rl.retryAfter],
                                      429, RateLimitBody(rl.retryAfter), "denied")]
    /\ UNCHANGED <<now, ticks, store, cache, rd, arrivals, written, app, wire>>

\* The catch of the route handler: the JSON error of a failure before
\* streaming.
ErrorStatus(e) ==
    IF e.code = "ECONNABORTED" THEN 504
    ELSE IF e.hasResponse THEN e.status
    ELSE 500

ErrorBody(e) ==
    IF e.code = "ECONNABORTED"
    THEN [error |-> "Request timeout", message |-> "AI service took too long to respond"]
    ELSE IF e.hasResponse THEN [error |-> "AI service error", message |-> e.msg]
    ELSE [error |-> "Server error", message |-> e.msg]

CatchError(r, e, how) == Json(r, ErrorStatus(e), ErrorBody(e), how)

StoreError == [code |-> "", hasResponse |-> FALSE, status |-> 0, msg |-> "store"]

\* Chat.find(...).sort({timestamp: -1}).limit(5) returns: the prompt is built
\* and the primary provider is called; a store failure goes to the catch.
ContextFetched(s, ok) ==
    /\ sub[s].pc = "find"
    /\ LET r == sub[s]
           chatHistory == SkipLimit(SortNewestFirst(FindByUser(store, r.user)), 0, CONTEXT_TURNS)
           messages == BuildMessages(chatHistory, r.message)
           prompt == JoinTurns(messages)
       IN sub' = [sub EXCEPT ![s] =
                    IF ok
                    THEN [r EXCEPT !.pc = "primary", !.messages = messages, !.prompt = prompt,
                                   !.calls = <<ProviderCall(PRIMARY_MODEL, prompt)>>]
                    ELSE CatchError(r, StoreError, "context_failed")]
    /\ UNCHANGED <<now, ticks, rateLimitCache, store, cache, rd, arrivals, checks, written, app, wire>>

\* handleStreamResponse(response, res, userId, message): registers the data,
\* end and error handlers on the stream and returns.
handleStreamResponse(r, model) ==
    [r EXCEPT !.pc = "streaming", !.provider = model, !.fullResponse = ""]

\* PrimaryStreams that calls the fallback provider as well.
PrimaryStreams_AlsoCallsFallback(s) ==
    /\ sub[s].pc = "primary"
    /\ sub' = [sub EXCEPT ![s] =
                 handleStreamResponse(
                     [@ EXCEPT !.calls = Append(@, ProviderCall(FALLBACK_MODEL, sub[s].prompt))],
                     PRIMARY_MODEL)]
    /\ UNCHANGED <<now, ticks, rateLimitCache, store, cache, rd, arrivals, checks, written, app, wire>>

\* The primary axios.post resolves with a stream.
PrimaryStreams(s) ==
    /\ sub[s].pc = "primary"
    /\ sub' = [sub EXCEPT ![s] = handleStreamResponse(@, PRIMARY_MODEL)]
    /\ UNCHANGED <<now, ticks, rateLimitCache, store, cache, rd, arrivals, checks, written, app, wire>>

\* The primary axios.post rejects: the fallback provider is called.
PrimaryFails(s, e) ==
    /\ sub[s].pc = "primary"
    /\ sub' = [sub EXCEPT ![s] =
                 [@ EXCEPT !.pc = "fallback", !.primaryError = e,
                           !.calls = Append(@, ProviderCall(FALLBACK_MODEL, sub[s].prompt))]]
    /\ UNCHANGED <<now, ticks, rateLimitCache, store, cache, rd, arrivals, checks, written, app, wire>>

\* The fallback axios.post resolves with a stream.
FallbackStreams(s) ==
    /\ sub[s].pc = "fallback"
    /\ sub' = [sub EXCEPT ![s] =
                 handleStreamResponse([@ EXCEPT !.primaryError = NoError], FALLBACK_MODEL)]
    /\ UNCHANGED <<now, ticks, rateLimitCache, store, cache, rd, arrivals, checks, written, app, wire>>

\* Rethrown with the primary's error surfaced.
Rethrown_Primary(primaryError, fallbackError) == primaryError

\* The error the inner catch rethrows when both providers failed.
Rethrown(primaryError, fallbackError) == fallbackError

\* The fallback axios.post rejects: its error is rethrown to the catch.
FallbackFails(s, e) ==
    /\ sub[s].pc = "fallback"
    /\ sub' = [sub EXCEPT ![s] =
                 CatchError([@ EXCEPT !.fallbackError = e],
                            Rethrown(sub[s].primaryError, e), "providers_failed")]
    /\ UNCHANGED <<now, ticks, rateLimitCache, store, cache, rd, arrivals, checks, written, app, wire>>

\* The fallback axios.post rejects with a response (an HTTP error status) and
\* the catch cannot send it: under responseType "stream" error.response.data
\* is the response stream, res.status() is set and JSON.stringify throws
\* inside res.json (a stream object holds circular references), the handler's
\* promise rejects and nothing answers the request.  Whether it does depends
\* on the stream object the build hands over; FallbackFails is the other
\* outcome.
FallbackFailsUnsent(s, e) ==
    /\ sub[s].pc = "fallback"
    /\ Rethrown(sub[s].primaryError, e).hasResponse
    /\ sub' = [sub EXCEPT ![s] =
                 [@ EXCEPT !.fallbackError = e, !.pc = "unanswered",
                           !.status = ErrorStatus(Rethrown(sub[s].primaryError, e)),
                           !.outcome = "unanswered"]]
    /\ UNCHANGED <<now, ticks, rateLimitCache, store, cache, rd, arrivals, checks, written, app, wire>>


(***************************************************************************)
(* Stream relay: the handlers handleStreamResponse registers.              *)
(***************************************************************************)
\* RelayLine with the accumulation forgotten: the fragment is forwarded only.
RelayLine_ForwardOnly(r, line) ==
    IF line.prefix /\ line.parses /\ line.text # ""
    THEN Write(r, Delta(line.text))
    ELSE r

\* One line of a chunk in the data handler: a frame that parses and has a
\* truthy generated_text is accumulated and forwarded; a frame that does not
\* parse is logged and skipped; any other line is ignored.
RelayLine(r, line) ==
    IF line.prefix /\ line.parses /\ line.text # ""
    THEN Write([r EXCEPT !.fullResponse = @ \o line.text], Delta(line.text))
    ELSE r

\* for (const line of lines) ...
RECURSIVE RelayLines(_, _)
RelayLines(r, lines) ==
    IF lines = <<>> THEN r
    ELSE RelayLines(RelayLine(r, Head(lines)), Tail(lines))

\* response.data.on("data", chunk => ...)
StreamData(s, chunk) ==
    /\ sub[s].pc = "streaming"
    /\ Len(sub[s].sink) < MaxDeltas
    /\ sub' = [sub EXCEPT ![s] = RelayLines(@, chunk)]
    /\ UNCHANGED <<now, ticks, rateLimitCache, store, cache, rd, arrivals, checks, written, app, wire>>

\* response.data.on("data", chunk => ...) for a chunk of the wire: the rest of
\* the frame the previous chunk ended in, then frames that arrive whole, of
\* which the last may be cut by the end of the chunk.
StreamChunk(s, frames, arrival) ==
    LET w == wire[s]
        whole == IF arrival = "whole" THEN frames ELSE SubSeq(frames, 1, Len(frames) - 1)
        lines == (IF w.open # <<>> THEN TailLines ELSE <<>>)
                 \o WholeLines(whole)
                 \o (IF arrival = "whole" THEN <<>> ELSE <<HeadLine(arrival)>>)
        Sent(fs, how) == [i \in 1..Len(fs) |-> [frame |-> fs[i], arrival |-> how]]
    IN /\ sub[s].pc = "streaming"
       /\ frames # <<>> \/ w.open # <<>>
       /\ arrival # "whole" => frames # <<>>
       /\ Len(w.sent) + Len(w.open) + Len(frames) <= MaxWire
       /\ sub' = [sub EXCEPT ![s] = RelayLines(@, lines)]
       /\ wire' = [wire EXCEPT ![s] =
                      [sent |-> w.sent \o w.open \o Sent(whole, "whole"),
                       open |-> IF arrival = "whole" THEN <<>>
                                ELSE Sent(<<frames[Len(frames)]>>, arrival)]]
       /\ UNCHANGED <<now, ticks, rateLimitCache, store, cache, rd, arrivals, checks, written, app>>

\* StreamEnd that writes the terminal marker before it saves the turn.
StreamEnd_MarkerFirst(s) ==
    /\ sub[s].pc = "streaming"
    /\ sub' = [sub EXCEPT ![s] = [Write(@, DoneMarker) EXCEPT !.pc = "saving"]]
    /\ UNCHANGED <<now, ticks, rateLimitCache, store, cache, rd, arrivals, checks, written, app, wire>>

\* response.data.on("end", ...) up to its first await: the turn is built from
\* the accumulated response and save() is called.
StreamEnd(s) ==
    /\ sub[s].pc = "streaming"
    /\ sub' = [sub EXCEPT ![s] = [@ EXCEPT !.pc = "saving"]]
    /\ UNCHANGED <<now, ticks, rateLimitCache, store, cache, rd, arrivals, checks, written, app, wire>>

\* What the end handler does when save() rejects.
OnSaveFailed(r) == End(Write(r, ErrorEvent("Error saving chat")), "save_failed")

\* chatEntry.save() returns: on success the turn is in the collection and
\* deleteCache is called; on failure the catch writes an error event and
\* closes the sink.
SaveReturns(s, ok) ==
    /\ sub[s].pc = "saving"
    /\ LET r == sub[s] IN
       IF ok
       THEN /\ store' = Append(store, NewChat(r.user, r.message, r.fullResponse, r.id, store))
            /\ sub' = [sub EXCEPT ![s] = [r EXCEPT !.pc = "invalidating"]]
       ELSE /\ sub' = [sub EXCEPT ![s] = OnSaveFailed(r)]
            /\ UNCHANGED store
    /\ UNCHANGED <<now, ticks, rateLimitCache, cache, rd, arrivals, checks, written, app, wire>>

\* OnSaved with the terminal marker written twice.
OnSaved_MarkerTwice(r) == End(Write(Write(r, DoneMarker), DoneMarker), "completed")

\* What the end handler does after the save and the invalidation.
OnSaved(r) == End(Write(r, DoneMarker), "completed")

\* The invalidation of the end handler.
InvalidateHistory(c, userId, ok) == deleteCache(c, InvalidationKey(userId), ok)

\* deleteCache returns (it never throws): the terminal marker is written and
\* the sink is closed.
InvalidateReturns(s, ok) ==
    /\ sub[s].pc = "invalidating"
    /\ cache' = InvalidateHistory(cache, sub[s].user, ok)
    /\ sub' = [sub EXCEPT ![s] = OnSaved([@ EXCEPT !.deleteFailed = ~ok])]
    /\ UNCHANGED <<now, ticks, rateLimitCache, store, rd, arrivals, checks, written, app, wire>>

\* What the error handler does.
OnStreamError(r) == End(Write(r, ErrorEvent("Stream error")), "stream_error")

\* StreamError that calls the fallback provider when the stream fails.
StreamError_FallsBack(s) ==
    /\ sub[s].pc = "streaming"
    /\ sub' = [sub EXCEPT ![s] =
                 IF Len(sub[s].calls) < 2
                 THEN [@ EXCEPT !.pc = "fallback",
                                !.calls = Append(@, ProviderCall(FALLBACK_MODEL, sub[s].prompt))]
                 ELSE OnStreamError(@)]
    /\ UNCHANGED <<now, ticks, rateLimitCache, store, cache, rd, arrivals, checks, written, app, wire>>

\* StreamError that also saves the partially accumulated response.
StreamError_SavesPartial(s) ==
    /\ sub[s].pc = "streaming"
    /\ sub' = [sub EXCEPT ![s] = OnStreamError(@)]
    /\ store' = Append(store, NewChat(sub[s].user, sub[s].message, sub[s].fullResponse,
                                      sub[s].id, store))
    /\ UNCHANGED <<now, ticks, rateLimitCache, cache, rd, arrivals, checks, written, app, wire>>

\* response.data.on("error", ...): a stream emits error or end, not both.
StreamError(s) ==
    /\ sub[s].pc = "streaming"
    /\ sub' = [sub EXCEPT ![s] = OnStreamError(@)]
    /\ UNCHANGED <<now, ticks, rateLimitCache, store, cache, rd, arrivals, checks, written, app, wire>>

\* The states of a submission in which the relay owns the sink.
Relaying == {"streaming"}

\* The caller closes its end of the connection.  No handler is registered
\* for it: writes that follow are accepted by res.write and dropped.
CallerDisconnects(s) ==
    /\ sub[s].pc \in Relaying
    /\ ~sub[s].gone
    /\ sub' = [sub EXCEPT ![s] = [@ EXCEPT !.gone = TRUE, !.goneAt = Len(sub[s].sink)]]
    /\ UNCHANGED <<now, ticks, rateLimitCache, store, cache, rd, arrivals, checks, written, app, wire>>

(***************************************************************************)
(* Chat history: GET /api/chat/history.                                    *)
(***************************************************************************)
\* The turns in the collection whose submission has been answered (or that
\* were there at start), by position.
AnsweredTurns ==
    {i \in DOMAIN store :
        \A s \in Subs : sub[s].id = store[i].sub => sub[s].pc = "done"}

\* A read arrives: the cache key is computed and getCache is called.  It
\* takes a free slot, or the slot of an answered read.
ReadHistory(r, u, page, limit) ==
    /\ rd[r].pc \in {"idle", "done"}
    /\ arrivals.history < MaxReads
    /\ arrivals' = [arrivals EXCEPT !.history = @ + 1]
    /\ rd' = [rd EXCEPT ![r] = [NewRead EXCEPT !.id = arrivals.history + 1,
                                               !.pc = "get", !.user = u, !.page = page,
                                               !.limit = limit,
                                               !.answered = AnsweredTurns]]
    /\ UNCHANGED <<now, ticks, rateLimitCache, store, cache, sub, checks, written, app, wire>>

\* CacheLookedUp that renews the expiry of the entry it hits.
CacheLookedUp_RenewsExpiry(r, ok) ==
    /\ rd[r].pc = "get"
    /\ LET q == rd[r]
           key == HistoryKey(q.user, q.page, q.limit)
           cachedData == getCache(cache, key, now, ok)
       IN /\ rd' = [rd EXCEPT ![r] =
                      IF cachedData.found
                      THEN [q EXCEPT !.pc = "done", !.status = 200, !.body = cachedData.data,
                                     !.hit = TRUE, !.cachedWith = written[key]]
                      ELSE [q EXCEPT !.pc = "find",
                                     !.cacheErrors = IF ok THEN @ ELSE @ \cup {"get"}]]
          /\ cache' = IF cachedData.found
                      THEN setCache(cache, key, cachedData.data, HISTORY_TTL, now, TRUE)
                      ELSE cache
    /\ UNCHANGED <<now, ticks, rateLimitCache, store, sub, arrivals, checks, written, app, wire>>

\* CacheLookedUp with a getCache that lets the Redis error through to the
\* catch of the route.
CacheLookedUp_Propagates(r, ok) ==
    /\ rd[r].pc = "get"
    /\ LET q == rd[r]
           cachedData == getCache(cache, HistoryKey(q.user, q.page, q.limit), now, ok)
       IN rd' = [rd EXCEPT ![r] =
                   IF ~ok
                   THEN [q EXCEPT !.pc = "done", !.status = 500, !.cacheErrors = {"get"},
                                  !.body = [error |-> "Internal server error",
                                            message |-> "redis"]]
                   ELSE IF cachedData.found
                   THEN [q EXCEPT !.pc = "done", !.status = 200, !.body = cachedData.data,
                                  !.hit = TRUE,
                                  !.cachedWith = written[HistoryKey(q.user, q.page, q.limit)]]
                   ELSE [q EXCEPT !.pc = "find"]]
    /\ UNCHANGED <<now, ticks, rateLimitCache, store, cache, sub, arrivals, checks, written, app, wire>>

\* getCache returns: a hit is sent as it is; on a miss, and on a Redis error
\* (null as well), Chat.find is called.
CacheLookedUp(r, ok) ==
    /\ rd[r].pc = "get"
    /\ LET q == rd[r]
           cachedData == getCache(cache, HistoryKey(q.user, q.page, q.limit), now, ok)
       IN rd' = [rd EXCEPT ![r] =
                   IF cachedData.found
                   THEN [q EXCEPT !.pc = "done", !.status = 200, !.body = cachedData.data,
                                  !.hit = TRUE,
                                  !.cachedWith = written[HistoryKey(q.user, q.page, q.limit)]]
                   ELSE [q EXCEPT !.pc = "find",
                                  !.cacheErrors = IF ok THEN @ ELSE @ \cup {"get"}]]
    /\ UNCHANGED <<now, ticks, rateLimitCache, store, cache, sub, arrivals, checks, written, app, wire>>

\* The 500 of the history route's catch.
HistoryError(q) ==
    [q EXCEPT !.pc = "done", !.status = 500,
              !.body = [error |-> "Internal server error", message |-> "store"]]

\* SkipCount that skips the requested page as well.
SkipCount_PageTimesLimit(page, limit) == page * limit

\* The rows to skip: (page - 1) * limit.
SkipCount(page, limit) == (page - 1) * limit

\* Chat.find({user_id}).sort({timestamp: -1}).limit(limit).skip((page-1)*limit)
HistoryPage(coll, userId, page, limit) ==
    SkipLimit(SortNewestFirst(FindByUser(coll, userId)), SkipCount(page, limit), limit)

\* The find returns: countDocuments is called.
PageFetched(r, ok) ==
    /\ rd[r].pc = "find"
    /\ LET q == rd[r] IN
       rd' = [rd EXCEPT ![r] =
                IF ok
                THEN [q EXCEPT !.pc = "count", !.seenAtFind = Len(store),
                               !.chats = HistoryPage(store, q.user, q.page, q.limit)]
                ELSE HistoryError(q)]
    /\ UNCHANGED <<now, ticks, rateLimitCache, store, cache, sub, arrivals, checks, written, app, wire>>

\* Math.ceil(total / limit)
TotalPages(total, limit) == Ceil(total, limit)

\* The response of a miss.
HistoryResponse(q) ==
    [chats |-> q.chats, totalPages |-> TotalPages(q.total, q.limit), currentPage |-> q.page]

\* The count returns: the response is built and setCache is called.
Counted(r, ok) ==
    /\ rd[r].pc = "count"
    /\ LET q == rd[r] IN
       rd' = [rd EXCEPT ![r] =
                IF ok
                THEN [q EXCEPT !.pc = "set", !.seenAtCount = Len(store),
                               !.total = CountDocuments(store, q.user)]
                ELSE HistoryError(q)]
    /\ UNCHANGED <<now, ticks, rateLimitCache, store, cache, sub, arrivals, checks, written, app, wire>>

\* setCache returns (it never throws): the response is sent.
CacheFilled(r, ok) ==
    /\ rd[r].pc = "set"
    /\ LET q == rd[r]
           key == HistoryKey(q.user, q.page, q.limit)
       IN /\ cache' = setCache(cache, key, HistoryResponse(q), HISTORY_TTL, now, ok)
          /\ written' = IF ok THEN MapSet(written, key, Len(store)) ELSE written
          /\ rd' = [rd EXCEPT ![r] = [q EXCEPT !.pc = "done", !.status = 200,
                                               !.body = HistoryResponse(q),
                                               !.cacheErrors = IF ok THEN @ ELSE @ \cup {"set"}]]
    /\ UNCHANGED <<now, ticks, rateLimitCache, store, sub, arrivals, checks, app, wire>>

(***************************************************************************)
(* The application (server.js): the limiter, the mounted routers, the      *)
(* health check and the 404 handler.  A path is its sequence of segments.  *)
(***************************************************************************)
Methods == {"GET", "POST"}
Paths ==
    { <<"health">>, <<"api", "messages">>, <<"api", "chat">>,
      <<"api", "chat", "history">>, <<"api", "auth", "login">>, <<"nowhere">> }

\* app.use(mount, router): the router sees the requests whose path starts
\* with the mount's segments, with those segments removed.
Mounted(mount, path) ==
    /\ Len(path) >= Len(mount)
    /\ SubSeq(path, 1, Len(mount)) = mount

Rest(mount, path) == SubSeq(path, Len(mount) + 1, Len(path))

\* The routes of the two routers, as <<method, path within the router>>.
AuthRoutes ==
    { <<"POST", <<"register">>>>, <<"POST", <<"login">>>>,
      <<"GET", <<"me">>>>, <<"GET", <<"users">>>> }
ChatRoutes ==
    { <<"GET", <<"test-env">>>>, <<"GET", <<"history">>>>, <<"POST", <<>>>> }

\* A request taken by a route of a router: that route's handlers answer it.
Routed(router) == [status |-> 0, kind |-> "router", body |-> <<>>, handler |-> router]

NotFound ==
    [status |-> 404, kind |-> "object", body |-> [error |-> "Not Found"],
     handler |-> "notFound"]

Healthy ==
    [status |-> 200, kind |-> "object", body |-> [status |-> "healthy"],
     handler |-> "health"]

\* The answer of the limiter to a request above its max.
TooManyRequests ==
    [status |-> 429, kind |-> "text",
     body |-> "Too many requests, please try again later.", handler |-> "limiter"]

\* The layers after the body parser, in the order they are registered: a
\* router without a matching route passes the request on.
Dispatch(method, path) ==
    IF Mounted(<<"api", "auth">>, path)
       /\ <<method, Rest(<<"api", "auth">>, path)>> \in AuthRoutes
    THEN Routed("authRoutes")
    ELSE IF Mounted(<<"api", "chat">>, path)
            /\ <<method, Rest(<<"api", "chat">>, path)>> \in ChatRoutes
    THEN Routed("chatRoutes")
    ELSE IF method = "GET" /\ path = <<"health">>
    THEN Healthy
    ELSE NotFound

\* A request to the application: counted by the limiter, then dispatched.
AppRequest(method, path, m) ==
    /\ Len(app.log) < MaxHttp
    /\ app' = [hits |-> app.hits + 1,
               log |-> Append(app.log,
                              [method |-> method, path |-> path, message |-> m,
                               response |-> IF app.hits + 1 > LimiterMax
                                            THEN TooManyRequests
                                            ELSE Dispatch(method, path)])]
    /\ UNCHANGED <<now, ticks, rateLimitCache, store, cache, sub, rd, arrivals, checks, written, wire>>

(***************************************************************************)
(* Time.                                                                   *)
(***************************************************************************)
Tick(d) ==
    /\ ticks < MaxTicks
    /\ now' = now + d
    /\ ticks' = ticks + 1
    /\ UNCHANGED <<rateLimitCache, store, cache, sub, rd, arrivals, checks, written, app, wire>>

\* Time passing when only the rate governor runs.
RateTick(d) ==
    /\ ticks < MaxRateTicks
    /\ now' = now + d
    /\ ticks' = ticks + 1
    /\ UNCHANGED <<rateLimitCache, store, cache, sub, rd, arrivals, checks, written, app, wire>>

(***************************************************************************)
(* Specification.                                                          *)
(***************************************************************************)
\* The chat pipeline: submissions from arrival to the closing of the sink.
Next ==
    \/ \E s \in Subs, u \in Users, m \in Messages : Submit(s, u, m)
    \/ \E s \in Subs : ChatMiddleware(s)
    \/ \E s \in Subs, ok \in BOOLEAN : ContextFetched(s, ok)
    \/ \E s \in Subs : PrimaryStreams(s)
    \/ \E s \in Subs, e \in ProviderErrors : PrimaryFails(s, e)
    \/ \E s \in Subs : FallbackStreams(s)
    \/ \E s \in Subs, e \in ProviderErrors : FallbackFails(s, e)
    \/ \E s \in Subs, e \in ProviderErrors : FallbackFailsUnsent(s, e)
    \/ \E s \in Subs, chunk \in Chunks : StreamData(s, chunk)
    \/ \E s \in Subs : StreamEnd(s)
    \/ \E s \in Subs, ok \in BOOLEAN : SaveReturns(s, ok)
    \/ \E s \in Subs, ok \in BOOLEAN : InvalidateReturns(s, ok)
    \/ \E s \in Subs : StreamError(s)
    \/ \E s \in Subs : CallerDisconnects(s)

Spec == Init /\ [][Next]_vars

\* The history service: reads, beside submissions of valid messages that the
\* primary provider answers with a stream that ends, while cached pages
\* expire.
HistoryChunk == <<Frame("a"), Malformed, Frame("b")>>

NextHistory ==
    \/ \E s \in Subs, u \in Users : SubmitValid(s, u)
    \/ \E s \in Subs : ChatMiddleware(s)
    \/ \E s \in Subs : ContextFetched(s, TRUE)
    \/ \E s \in Subs : PrimaryStreams(s)
    \/ \E s \in Subs : StreamData(s, HistoryChunk)
    \/ \E s \in Subs : StreamEnd(s)
    \/ \E s \in Subs, ok \in BOOLEAN : SaveReturns(s, ok)
    \/ \E s \in Subs, ok \in BOOLEAN : InvalidateReturns(s, ok)
    \/ \E r \in Reads, u \in Users, p \in Pages, l \in Limits : ReadHistory(r, u, p, l)
    \/ \E r \in Reads, ok \in BOOLEAN : CacheLookedUp(r, ok)
    \/ \E r \in Reads, ok \in BOOLEAN : PageFetched(r, ok)
    \/ \E r \in Reads, ok \in BOOLEAN : Counted(r, ok)
    \/ \E r \in Reads, ok \in BOOLEAN : CacheFilled(r, ok)
    \/ \E d \in CacheSteps : Tick(d)

SpecHistory == Init /\ [][NextHistory]_vars

\* The rate governor alone: requests arrive and pass the middleware, time
\* passes, and no handler progresses past its first await.
NextRate ==
    \/ \E s \in Subs, u \in Users, m \in Messages : Burst(s, u, m)
    \/ \E s \in Subs : ChatMiddleware(s)
    \/ \E d \in RateSteps : RateTick(d)

SpecRate == Init /\ [][NextRate]_vars

\* The relay of one provider stream, chunk by chunk as the transport delivers
\* it.
SubmitOne(s, u) ==
    /\ arrivals.chat < MaxRelaySubs
    /\ Submit(s, u, "hi")

NextRelay ==
    \/ \E s \in Subs, u \in Users : SubmitOne(s, u)
    \/ \E s \in Subs : ChatMiddleware(s)
    \/ \E s \in Subs : ContextFetched(s, TRUE)
    \/ \E s \in Subs : PrimaryStreams(s)
    \/ \E s \in Subs, frames \in WireBatches, arrival \in Arrivals : StreamChunk(s, frames, arrival)
    \/ \E s \in Subs : StreamEnd(s)
    \/ \E s \in Subs, ok \in BOOLEAN : SaveReturns(s, ok)
    \/ \E s \in Subs, ok \in BOOLEAN : InvalidateReturns(s, ok)
    \/ \E s \in Subs : StreamError(s)

SpecRelay == Init /\ [][NextRelay]_vars

\* One submission from arrival to its end, under the scheduling the runtime
\* gives: the synchronous code of a request runs, every store and cache call
\* returns, every provider call fails or yields a stream, and every stream
\* emits end or error.  Nothing obliges a stream to deliver another chunk.
Step(s) ==
    \/ ChatMiddleware(s)
    \/ \E ok \in BOOLEAN : ContextFetched(s, ok)
    \/ PrimaryStreams(s)
    \/ \E e \in ProviderErrors : PrimaryFails(s, e)
    \/ FallbackStreams(s)
    \/ \E e \in ProviderErrors : FallbackFails(s, e)
    \/ \E e \in ProviderErrors : FallbackFailsUnsent(s, e)
    \/ StreamEnd(s)
    \/ StreamError(s)
    \/ \E ok \in BOOLEAN : SaveReturns(s, ok)
    \/ \E ok \in BOOLEAN : InvalidateReturns(s, ok)

NextLive ==
    \/ \E s \in Subs, u \in Users : SubmitOne(s, u)
    \/ \E s \in Subs, chunk \in Chunks : StreamData(s, chunk)
    \/ \E s \in Subs : Step(s)

SpecLive == Init /\ [][NextLive]_vars /\ \A s \in Subs : WF_vars(Step(s))

\* The application's routing alone.
NextServer ==
    \E method \in Methods, path \in Paths, m \in Messages : AppRequest(method, path, m)

SpecServer == Init /\ [][NextServer]_vars


(***************************************************************************)
(* Properties.                                                             *)
(***************************************************************************)
\* The events of one type in a sink, by position.
EventsOf(sink, type) == {i \in DOMAIN sink : sink[i].type = type}

\* The concatenation of the delta fragments of a sink, in the order written.
RECURSIVE ConcatDeltas(_)
ConcatDeltas(sink) ==
    IF sink = <<>> THEN ""
    ELSE (IF Head(sink).type = "delta" THEN Head(sink).content ELSE "")
         \o ConcatDeltas(Tail(sink))

\* The turns a submission has in the collection, by position.
TurnsOf(id) == {i \in DOMAIN store : store[i].sub = id}

\* No delta fragment follows a terminal marker.
NoDeltaAfterDone(sink) ==
    \A i \in EventsOf(sink, "done") : \A j \in EventsOf(sink, "delta") : j < i

Answered(s) == sub[s].pc = "done"

\* C1: a submission that completed (end of stream, [DONE] sent) has exactly
\* one turn in the collection, with its user and message, whose response is
\* the concatenation of the delta fragments written to its sink, in order.
C1_CompletedTurnIsConcatOfDeltas ==
    \A s \in Subs :
        sub[s].outcome = "completed" =>
            /\ Cardinality(TurnsOf(sub[s].id)) = 1
            /\ \A i \in TurnsOf(sub[s].id) :
                  /\ store[i].response = ConcatDeltas(sub[s].sink)
                  /\ store[i].user_id = sub[s].user
                  /\ store[i].message = sub[s].message

\* A submission completed after four fragments from two chunks.
C1_Witness ==
    \E s \in Subs :
        /\ sub[s].outcome = "completed"
        /\ Cardinality(EventsOf(sub[s].sink, "delta")) = 4
        /\ \E i \in TurnsOf(sub[s].id) : store[i].response = "abab"

\* The history keys of one user.
ScopedKeys(userId) == {HistoryKey(userId, p, l) : p \in Pages, l \in Limits}

\* C2: a history read never returns a page that was cached before a turn of
\* its user whose submission was answered before the read arrived: the page
\* of a hit was cached when the collection held every such turn.
C2_NoPageFromBeforeTheSubmission ==
    \A r \in Reads :
        (rd[r].pc = "done" /\ rd[r].hit) =>
            \A i \in rd[r].answered :
                store[i].user_id = rd[r].user => i <= rd[r].cachedWith

\* C2, the invalidation step: when deleteCache returns in the end handler
\* without a Redis error, no history key of the submission's user is left in
\* the cache.
C2_InvalidationRemovesScopedKeys ==
    [][\A s \in Subs :
          InvalidateReturns(s, TRUE) => ScopedKeys(sub[s].user) \cap DOMAIN cache' = {}]_vars

\* The admitted checks of a user among the first n checks, no older than the
\* window at time t.
AdmittedWithin(userId, n, t) ==
    {j \in 1..n : /\ checks[j].user = userId
                  /\ checks[j].admitted
                  /\ t - checks[j].time <= RATE_LIMIT_WINDOW}

\* C3: a check is denied only when MAX_REQUESTS checks of the user were
\* admitted within the window before it, and a denied request is answered
\* with 429 and a retry-after that is strictly positive.
C3_DeniedWithPositiveRetryAfter ==
    /\ \A i \in DOMAIN checks :
          ~checks[i].admitted =>
              Cardinality(AdmittedWithin(checks[i].user, i - 1, checks[i].time))
                  >= MAX_REQUESTS
    /\ \A s \in Subs :
          sub[s].outcome = "denied" => sub[s].status = 429 /\ sub[s].retryAfter > 0

C5_FallbackSameRequestOwnError ==
    \A s \in Subs :
        /\ sub[s].primaryError # NoError =>
              /\ Len(sub[s].calls) = 2
              /\ sub[s].calls[1].model = PRIMARY_MODEL
              /\ sub[s].calls[2].model = FALLBACK_MODEL
              /\ sub[s].calls[2].inputs = sub[s].calls[1].inputs
              /\ sub[s].calls[2].parameters = sub[s].calls[1].parameters
        /\ sub[s].outcome = "providers_failed" =>
              /\ sub[s].primaryError # NoError
              /\ sub[s].status = ErrorStatus(sub[s].fallbackError)
              /\ sub[s].body = ErrorBody(sub[s].fallbackError)

\* Both providers failed, with errors that map to different statuses.
C5_Witness ==
    \E s \in Subs :
        /\ sub[s].outcome = "providers_failed"
        /\ sub[s].primaryError.code = "ECONNABORTED"
        /\ sub[s].fallbackError.hasResponse
        /\ sub[s].status = 503
        /\ sub[s].user = "u1"
        /\ Len(sub[s].messages) > 1

\* C6: res.end()/res.json() is invoked exactly once for an answered
\* submission, never twice, and nothing is written to a sink after it was
\* closed, by the server or by the caller.
C6_SinkClosedExactlyOnce ==
    \A s \in Subs :
        /\ sub[s].ends <= 1
        /\ Answered(s) => sub[s].ends = 1
        /\ sub[s].gone => Len(sub[s].sink) = sub[s].goneAt

\* C7: when the stream ended and the save failed, the sink ends with [DONE]
\* and carries no error event.
C7_DoneAfterFailedSave ==
    \A s \in Subs :
        sub[s].outcome = "save_failed" =>
            /\ sub[s].sink[Len(sub[s].sink)] = DoneMarker
            /\ EventsOf(sub[s].sink, "error") = {}

\* C8: after the caller disconnected during the stream, nothing more is
\* forwarded and no turn of the submission is inserted.
C8_DisconnectStopsRelay ==
    \A s \in Subs :
        sub[s].gone =>
            /\ EventsOf(sub[s].sink, "delta") \subseteq 1..sub[s].goneAt
            /\ TurnsOf(sub[s].id) = {}

\* C9: a submission that ended by a stream error has exactly one error
\* event, as the last event of its sink, the sink closed once, no [DONE],
\* and no turn in the collection.
C9_StreamErrorOneEventNoTurn ==
    \A s \in Subs :
        sub[s].outcome = "stream_error" =>
            /\ Cardinality(EventsOf(sub[s].sink, "error")) = 1
            /\ sub[s].sink[Len(sub[s].sink)] = ErrorEvent("Stream error")
            /\ sub[s].ends = 1
            /\ EventsOf(sub[s].sink, "done") = {}
            /\ TurnsOf(sub[s].id) = {}

\* A stream failed after two fragments were forwarded and accumulated.
C9_Witness ==
    \E s \in Subs :
        /\ sub[s].outcome = "stream_error"
        /\ sub[s].fullResponse = "ab"
        /\ Len(sub[s].sink) = 3

\* The turns of a user among the first n turns of the collection.
TurnsOfUser(n, userId) == {store[i] : i \in {j \in 1..n : store[j].user_id = userId}}

\* C10: a read that missed the cache and was answered with 200 returns at
\* most limit turns, all of its user; the i-th has exactly
\* (page-1)*limit + i - 1 newer turns of the user before it, none is left
\* out while the page is short, and totalPages is the least number of pages
\* of that size that hold the user's turns.
C10_MissReturnsThePage ==
    \A r \in Reads :
        (rd[r].pc = "done" /\ rd[r].status = 200 /\ ~rd[r].hit) =>
            LET q == rd[r]
                chats == q.body.chats
                mine == TurnsOfUser(q.seenAtFind, q.user)
                counted == Cardinality(TurnsOfUser(q.seenAtCount, q.user))
                first == (q.page - 1) * q.limit
            IN /\ Len(chats) <= q.limit
               /\ \A i \in DOMAIN chats :
                     /\ chats[i] \in mine
                     /\ Cardinality({t \in mine : t.timestamp > chats[i].timestamp})
                            = first + i - 1
               /\ Len(chats) < q.limit => Len(chats) + first >= Cardinality(mine)
               /\ q.body.totalPages * q.limit >= counted
               /\ (q.body.totalPages - 1) * q.limit < counted

\* A miss answered with a full second page of two turns out of six.
C10_Witness ==
    \E r \in Reads :
        /\ rd[r].pc = "done" /\ rd[r].status = 200 /\ ~rd[r].hit
        /\ rd[r].page = 2 /\ rd[r].limit = 2
        /\ Len(rd[r].body.chats) = 2
        /\ rd[r].body.totalPages = 3

\* The entry of a user is older than the window.
StaleEntry(userId) ==
    /\ userId \in DOMAIN rateLimitCache
    /\ now - rateLimitCache[userId].timestamp > RATE_LIMIT_WINDOW

\* C11: every entry of the rate-limit map has a count between 1 and
\* MAX_REQUESTS; and an admission check that finds the user's entry older
\* than the window is admitted and leaves the entry {count: 1, timestamp:
\* now}, as a check of a user without entry does.
C11_CountBoundedStaleEntryIsAbsent ==
    /\ [](\A u \in DOMAIN rateLimitCache :
            rateLimitCache[u].count >= 1 /\ rateLimitCache[u].count <= MAX_REQUESTS)
    /\ [][\A s \in Subs :
            (ChatMiddleware(s) /\ ~ValidationFails(sub[s])
                /\ (StaleEntry(sub[s].user) \/ sub[s].user \notin DOMAIN rateLimitCache)) =>
                /\ sub'[s].pc = "find"
                /\ rateLimitCache'[sub[s].user] = [count |-> 1, timestamp |-> now]]_vars

\* A user exhausted a window, and a later check found the entry older than
\* the window: it was admitted and the entry is fresh.
C11_Witness ==
    \E i, j, k \in DOMAIN checks :
        /\ i < j /\ j < k
        /\ checks[i].user = checks[k].user /\ checks[j].user = checks[k].user
        /\ checks[i].admitted /\ checks[j].admitted /\ checks[k].admitted
        /\ checks[j].time - checks[i].time <= RATE_LIMIT_WINDOW
        /\ checks[k].time - checks[i].time > RATE_LIMIT_WINDOW
        /\ \A l \in (i + 1)..(j - 1) : checks[l].user # checks[k].user
        /\ \A l \in 1..(i - 1) : checks[l].user # checks[k].user
        /\ checks[k].user \in DOMAIN rateLimitCache
        /\ rateLimitCache[checks[k].user] = [count |-> 1, timestamp |-> checks[k].time]

\* The admitted checks of a user at times from..to (both included).
AdmittedBetween(userId, from, to) ==
    {j \in DOMAIN checks : /\ checks[j].user = userId
                           /\ checks[j].admitted
                           /\ checks[j].time >= from
                           /\ checks[j].time <= to}

\* C12 as stated: in every interval of the window's length, wherever it
\* starts, at most MAX_REQUESTS checks of one user are admitted.  (It is
\* enough to look at the intervals that start at an admitted check; the
\* interval is taken without its last instant.)
C12_SlidingWindow ==
    \A i \in DOMAIN checks :
        Cardinality(AdmittedBetween(checks[i].user, checks[i].time,
                                    checks[i].time + RATE_LIMIT_WINDOW - 1))
            <= MAX_REQUESTS

\* C12 as amended: the windows are fixed.  A window of a user starts at the
\* check that created the user's entry and lasts while the entry is no older
\* than RATE_LIMIT_WINDOW; at most MAX_REQUESTS checks of the user are
\* admitted in it.
C12_FixedWindow ==
    \A u \in DOMAIN rateLimitCache :
        Cardinality(AdmittedBetween(u, rateLimitCache[u].timestamp,
                                    rateLimitCache[u].timestamp + RATE_LIMIT_WINDOW))
            <= MAX_REQUESTS

\* A user was admitted MAX_REQUESTS times in a second window, one of them
\* less than a window after an admission of the window before.
C12_Witness ==
    \E u \in DOMAIN rateLimitCache :
        /\ rateLimitCache[u].count = MAX_REQUESTS
        /\ \E j \in DOMAIN checks :
              /\ checks[j].user = u /\ checks[j].admitted
              /\ checks[j].time < rateLimitCache[u].timestamp
              /\ rateLimitCache[u].timestamp - checks[j].time < RATE_LIMIT_WINDOW

\* C13: admission checks of concurrent requests do not lose increments: the
\* count of a user's entry is the number of checks of that user admitted
\* since the entry was created, and it never exceeds MAX_REQUESTS.
C13_NoLostIncrement ==
    \A u \in DOMAIN rateLimitCache :
        /\ rateLimitCache[u].count =
              Cardinality(AdmittedBetween(u, rateLimitCache[u].timestamp, now))
        /\ rateLimitCache[u].count <= MAX_REQUESTS

\* Three requests of one user were in flight together; the two that arrived
\* last were checked first and admitted, the first one was denied.
C13_Witness ==
    \E s, t, v \in Subs :
        /\ sub[s].user = sub[t].user /\ sub[t].user = sub[v].user
        /\ sub[s].id = 1 /\ sub[t].id = 2 /\ sub[v].id = 3
        /\ sub[s].outcome = "denied"
        /\ sub[t].pc = "find" /\ sub[v].pc = "find"
        /\ rateLimitCache[sub[s].user].count = MAX_REQUESTS

\* The outcomes of a submission that failed before streaming.
PreStreamFailures == {"invalid", "denied", "context_failed", "providers_failed"}

\* The status the error taxonomy gives a failure before streaming.
TaxonomyStatus(r) ==
    IF r.outcome = "invalid" THEN 400
    ELSE IF r.outcome = "denied" THEN 429
    ELSE IF r.outcome = "context_failed" THEN 500
    ELSE IF r.fallbackError.code = "ECONNABORTED" THEN 504
    ELSE IF r.fallbackError.hasResponse THEN r.fallbackError.status
    ELSE 500

\* C14: a submission that failed before streaming is answered with a JSON
\* body that has the fields error and message, and with the status of its
\* kind of failure: 400, 429, 504, the provider's status, or 500.
C14_PreStreamFailureIsErrorMessageJson ==
    \A s \in Subs :
        sub[s].outcome \in PreStreamFailures =>
            /\ sub[s].sink = <<>>
            /\ sub[s].status = TaxonomyStatus(sub[s])
            /\ {"error", "message"} \subseteq DOMAIN sub[s].body

\* The stored turn of a user that has exactly k newer turns of that user.
TurnAtRank(userId, k) ==
    CHOOSE d \in FindByUser(store, userId) :
        Cardinality({e \in FindByUser(store, userId) : e.timestamp > d.timestamp}) = k

\* C15: when the context of a submission has been fetched, the message
\* sequence has 2*min(n,5)+1 turns for a user with n stored turns: for the
\* i-th most recent stored turn, i = 1..min(n,5), a user turn with its
\* message at 2i-1 and an assistant turn with its response at 2i, and the new
\* message as a user turn at the end.
C15_PromptSequence ==
    [][\A s \in Subs :
          ContextFetched(s, TRUE) =>
              LET n == CountDocuments(store, sub[s].user)
                  k == Min(n, 5)
                  msgs == sub'[s].messages
              IN /\ Len(msgs) = 2 * k + 1
                 /\ \A i \in 1..k :
                       /\ msgs[2 * i - 1] =
                             [role |-> "user",
                              content |-> TurnAtRank(sub[s].user, i - 1).message]
                       /\ msgs[2 * i] =
                             [role |-> "assistant",
                              content |-> TurnAtRank(sub[s].user, i - 1).response]
                 /\ msgs[2 * k + 1] = [role |-> "user", content |-> sub[s].message]]_vars

\* A submission of a user with seven stored turns, the newest saved by the
\* submission before it: its sequence has eleven turns and starts with that
\* turn.
C15_Witness ==
    \E s \in Subs :
        /\ sub[s].id = 2
        /\ Len(sub[s].messages) = 11
        /\ sub[s].messages[1] = [role |-> "user", content |-> "hi"]
        /\ sub[s].messages[2] = [role |-> "assistant", content |-> "ab"]
        /\ sub[s].messages[3] = [role |-> "user", content |-> "q7"]
        /\ sub[s].messages[11] = [role |-> "user", content |-> "hi"]

\* C16: a cache failure fails no request.  A read whose cache get failed goes
\* to the store: it is answered 200 with the page of the store, or 500 when
\* the store failed.  A read whose cache set failed is answered 200 with the
\* response it built.  A submission whose cache delete failed after the save
\* ends with [DONE], its turn saved.
C16_CacheFailureIsNotFatal ==
    /\ \A r \in Reads :
          LET q == rd[r] IN
          (q.pc = "done" /\ "get" \in q.cacheErrors) =>
              /\ ~q.hit
              /\ \/ /\ q.status = 200
                    /\ q.body.chats =
                          HistoryPage(SubSeq(store, 1, q.seenAtFind), q.user, q.page, q.limit)
                 \/ /\ q.status = 500
                    /\ q.body.message = "store"
    /\ \A r \in Reads :
          (rd[r].pc = "done" /\ "set" \in rd[r].cacheErrors) =>
              /\ rd[r].status = 200
              /\ rd[r].body = HistoryResponse(rd[r])
    /\ \A s \in Subs :
          sub[s].deleteFailed =>
              /\ sub[s].outcome = "completed"
              /\ sub[s].sink[Len(sub[s].sink)] = DoneMarker
              /\ sub[s].ends = 1
              /\ Cardinality(TurnsOf(sub[s].id)) = 1

\* A read was answered 200 with a page of the store although its cache get
\* and its cache set failed, while the key was in the cache; and a
\* submission ended with [DONE] although its cache delete failed.
C16_Witness ==
    /\ \E r \in Reads :
          /\ rd[r].pc = "done" /\ rd[r].status = 200
          /\ rd[r].cacheErrors = {"get", "set"}
          /\ Len(rd[r].body.chats) = 2
          /\ HistoryKey(rd[r].user, rd[r].page, rd[r].limit) \in DOMAIN cache
    /\ \E s \in Subs : sub[s].deleteFailed /\ sub[s].outcome = "completed"

\* C17: a request to /api/messages that the limiter lets through is
\* answered 200 with an array when it is a GET, and 201 with a body whose
\* message is the message sent when it is a POST.
C17_MessagesResourceServed ==
    \A i \in DOMAIN app.log :
        LET q == app.log[i] IN
        (q.path = <<"api", "messages">> /\ q.response.handler # "limiter") =>
            /\ q.method = "GET" =>
                  q.response.status = 200 /\ q.response.kind = "array"
            /\ q.method = "POST" =>
                  /\ q.response.status = 201
                  /\ q.response.kind = "object"
                  /\ q.response.body.message = q.message

HasDone(r) == EventsOf(r.sink, "done") # {}

\* C18: the end handler inserts the turn, then invalidates, then writes
\* [DONE] and closes the sink.  While the save is awaited there is no turn
\* and no [DONE]; while the invalidation is awaited the turn is in the
\* collection, there is no [DONE] and the sink is open; [DONE] is written
\* only by the step in which the invalidation returns, which closes the
\* sink; so a sink with [DONE] belongs to a submission whose turn is stored.
C18_SaveInvalidateDoneClose ==
    /\ [](\A s \in Subs :
            /\ sub[s].pc = "saving" =>
                  TurnsOf(sub[s].id) = {} /\ ~HasDone(sub[s]) /\ sub[s].ends = 0
            /\ sub[s].pc = "invalidating" =>
                  TurnsOf(sub[s].id) # {} /\ ~HasDone(sub[s]) /\ sub[s].ends = 0
            /\ HasDone(sub[s]) =>
                  TurnsOf(sub[s].id) # {} /\ sub[s].pc = "done" /\ sub[s].ends = 1)
    /\ [][\A s \in Subs :
            (~HasDone(sub[s]) /\ HasDone(sub'[s])) =>
                /\ sub[s].pc = "invalidating"
                /\ \E ok \in BOOLEAN :
                      cache' = deleteCache(cache, InvalidationKey(sub[s].user), ok)
                /\ sub'[s].sink = Append(sub[s].sink, DoneMarker)
                /\ sub'[s].ends = 1]_vars

\* A submission whose turn is the last of the collection awaits its
\* invalidation, beside one that went through the whole order.
C18_Witness ==
    \E s, t \in Subs :
        /\ sub[s].pc = "invalidating"
        /\ Len(store) \in TurnsOf(sub[s].id)
        /\ sub[s].sink = <<Delta("a"), Delta("b")>>
        /\ sub[t].outcome = "completed"
        /\ HasDone(sub[t])
        /\ TurnsOf(sub[t].id) # {}

\* The calls of a submission to one provider, by position.
CallsTo(r, model) == {i \in DOMAIN r.calls : r.calls[i].model = model}

\* The submission reached the provider calls.
ReachedProviders(r) ==
    \/ r.pc \in {"primary", "fallback", "streaming", "saving", "invalidating", "unanswered"}
    \/ r.outcome \in {"completed", "save_failed", "stream_error", "providers_failed"}

\* C19: a submission makes at most two provider calls: none before its
\* context is fetched, then the primary exactly once, first; the fallback at
\* most once, second, and only in a step in which the primary call fails;
\* a submission that streams from the primary has made one call.
C19_AtMostTwoProviderCalls ==
    /\ [](\A s \in Subs :
            LET r == sub[s] IN
            /\ Len(r.calls) <= 2
            /\ Cardinality(CallsTo(r, PRIMARY_MODEL)) = IF ReachedProviders(r) THEN 1 ELSE 0
            /\ CallsTo(r, PRIMARY_MODEL) \subseteq {1}
            /\ CallsTo(r, FALLBACK_MODEL) \subseteq {2}
            /\ r.provider = PRIMARY_MODEL => Len(r.calls) = 1
            /\ r.pc = "primary" => Len(r.calls) = 1)
    /\ [][\A s \in Subs :
            (sub'[s].id = sub[s].id /\ CallsTo(sub'[s], FALLBACK_MODEL) # CallsTo(sub[s], FALLBACK_MODEL)) =>
                /\ sub[s].pc = "primary"
                /\ sub[s].provider = ""
                /\ sub'[s].primaryError \in ProviderErrors
                /\ sub'[s].pc = "fallback"]_vars

\* One submission completed on the fallback after two calls, beside one that
\* completed on the primary after one call.
C19_Witness ==
    \E s, t \in Subs :
        /\ sub[s].outcome = "completed" /\ sub[s].provider = FALLBACK_MODEL
        /\ Len(sub[s].calls) = 2
        /\ sub[t].outcome = "completed" /\ sub[t].provider = PRIMARY_MODEL
        /\ Len(sub[t].calls) = 1

\* C20: the fallback is called only before anything was relayed: a step
\* that adds a provider call finds no stream handed to the relay, an empty
\* sink and nothing accumulated; the provider whose stream is relayed never
\* changes; and the step in which a relayed stream fails makes no call and
\* closes the sink.
C20_FallbackOnlyBeforeFirstFragment ==
    [][\A s \in Subs :
          sub'[s].id = sub[s].id =>
              /\ Len(sub'[s].calls) > Len(sub[s].calls) =>
                    /\ sub[s].provider = ""
                    /\ sub[s].sink = <<>>
                    /\ sub[s].fullResponse = ""
              /\ sub[s].provider # "" => sub'[s].provider = sub[s].provider
              /\ (sub[s].pc = "streaming" /\ sub'[s].outcome = "stream_error") =>
                    /\ sub'[s].calls = sub[s].calls
                    /\ sub'[s].pc = "done"]_vars

\* The primary's stream failed after two fragments were forwarded: one call
\* was made and the sink holds the two fragments and the error event.
C20_Witness ==
    \E s \in Subs :
        /\ sub[s].outcome = "stream_error"
        /\ sub[s].provider = PRIMARY_MODEL
        /\ Len(sub[s].calls) = 1
        /\ sub[s].sink = <<Delta("a"), Delta("b"), ErrorEvent("Stream error")>>

\* C21: when getCache returns for a read whose key is in the cache and not
\* expired (and Redis answers), the read is answered 200 with the value of
\* the entry; it has not queried nor counted the collection; the cache, with
\* the entry and its expiry, is as before, and so is the collection.
C21_HitReturnsCachedPageOnly ==
    [][\A r \in Reads :
          LET q == rd[r]
              key == HistoryKey(q.user, q.page, q.limit)
          IN (CacheLookedUp(r, TRUE) /\ key \in DOMAIN cache /\ now < cache[key].expireAt) =>
                 /\ rd'[r].pc = "done"
                 /\ rd'[r].hit
                 /\ rd'[r].status = 200
                 /\ rd'[r].body = cache[key].value[2]
                 /\ rd'[r].seenAtFind = 0 /\ rd'[r].seenAtCount = 0
                 /\ rd'[r].chats = <<>> /\ rd'[r].total = 0
                 /\ cache' = cache
                 /\ store' = store]_vars

\* A read hit an entry that was a third through its life: it was answered
\* with the cached second page, and the entry still expires when it was to.
C21_Witness ==
    \E r \in Reads :
        LET key == HistoryKey(rd[r].user, rd[r].page, rd[r].limit) IN
        /\ rd[r].pc = "done" /\ rd[r].hit /\ rd[r].status = 200
        /\ rd[r].page = 2
        /\ Len(rd[r].body.chats) = 2
        /\ now = 100000
        /\ key \in DOMAIN cache
        /\ cache[key].expireAt = 300000

\* The fragments of the frames a provider has sent that carry a non-empty
\* generated_text, in the order sent.
RECURSIVE Fragments(_)
Fragments(sent) ==
    IF sent = <<>> THEN <<>>
    ELSE (IF Head(sent).frame.parses /\ Head(sent).frame.text # ""
          THEN <<Head(sent).frame.text>> ELSE <<>>) \o Fragments(Tail(sent))

\* The same, of the frames that arrived whole in one chunk.
WholeOnly(sent) == SelectSeq(sent, LAMBDA e : e.arrival = "whole")

\* The delta fragments written to a sink, in the order written.
DeltasOf(sink) ==
    LET d == SelectSeq(sink, LAMBDA e : e.type = "delta")
    IN [i \in 1..Len(d) |-> d[i].content]

RECURSIVE Concat(_)
Concat(texts) == IF texts = <<>> THEN "" ELSE Head(texts) \o Concat(Tail(texts))

\* C22: a frame of the provider stream that fails to parse contributes
\* nothing to the forwarded deltas nor to the accumulated response and does
\* not end the stream, and every well-formed frame with a generated-text
\* field sent before or after it is forwarded and accumulated, in order.
C22_MalformedSkippedOthersForwarded ==
    /\ [] \A s \in Subs :
          (\E i \in DOMAIN wire[s].sent : ~wire[s].sent[i].frame.parses) =>
              /\ DeltasOf(sub[s].sink) = Fragments(wire[s].sent)
              /\ sub[s].fullResponse = Concat(Fragments(wire[s].sent))
    /\ [][\A s \in Subs, frames \in WireBatches, arrival \in Arrivals :
            StreamChunk(s, frames, arrival) => sub'[s].pc = "streaming"]_vars

\* What the data handler does: it forwards and accumulates, in order, the
\* fragments of the frames that arrived whole in one chunk, and a chunk never
\* ends the stream.
RelayedAreTheWholeFrames ==
    /\ [] \A s \in Subs :
          /\ DeltasOf(sub[s].sink) = Fragments(WholeOnly(wire[s].sent))
          /\ sub[s].fullResponse = Concat(Fragments(WholeOnly(wire[s].sent)))
    /\ [][\A s \in Subs, frames \in WireBatches, arrival \in Arrivals :
            StreamChunk(s, frames, arrival) => sub'[s].pc = "streaming"]_vars

\* C23: under any interleaving of a history read with a chat submission of
\* the same user, a read that queried the collection before the submission's
\* turn was inserted does not write its page to the cache after the
\* submission's invalidation has returned.
C23_NoPageOfBeforeTheInsertSetAfterInvalidation ==
    [][\A r \in Reads :
          CacheFilled(r, TRUE) =>
              \A s \in Subs :
                  (sub[s].outcome = "completed" /\ sub[s].user = rd[r].user) =>
                      \A i \in TurnsOf(sub[s].id) : i <= rd[r].seenAtFind]_vars

\* The first moment after which a check of the user is admitted again: the
\* end of the window of the user's entry.
ReadmittedAfter(m, userId) == m[userId].timestamp + RATE_LIMIT_WINDOW

\* C24: a denied admission check leaves the user's entry as it was, with its
\* count at MAX_REQUESTS and its window start not moved, so the moment after
\* which the user is admitted again stays where it was; and a request that
\* validation rejects with 400 makes no admission check and changes no
\* entry.
C24_DeniedAndInvalidLeaveEntries ==
    [][\A s \in Subs :
          ChatMiddleware(s) =>
              LET u == sub[s].user IN
              /\ sub'[s].outcome = "denied" =>
                     /\ sub'[s].status = 429
                     /\ u \in DOMAIN rateLimitCache /\ u \in DOMAIN rateLimitCache'
                     /\ rateLimitCache'[u] = rateLimitCache[u]
                     /\ rateLimitCache'[u].count = MAX_REQUESTS
                     /\ ReadmittedAfter(rateLimitCache', u) = ReadmittedAfter(rateLimitCache, u)
              /\ sub'[s].outcome = "invalid" =>
                     /\ sub'[s].status = 400
                     /\ rateLimitCache' = rateLimitCache
                     /\ checks' = checks]_vars

\* A user's check was denied 500 ms after the window began and the entry
\* still has the window's start, and a request rejected by validation was
\* answered.
C24_Witness ==
    /\ \E s \in Subs :
          /\ sub[s].outcome = "denied"
          /\ sub[s].user \in DOMAIN rateLimitCache
          /\ rateLimitCache[sub[s].user] = [count |-> MAX_REQUESTS, timestamp |-> 0]
          /\ \E i \in DOMAIN checks :
                /\ checks[i].user = sub[s].user /\ ~checks[i].admitted
                /\ checks[i].time = 500
    /\ \E s \in Subs : sub[s].outcome = "invalid" /\ sub[s].status = 400
    /\ now = 500

\* The three ways a submission ends: a JSON error response, an in-band error
\* event, or [DONE].
EndedAsSpecified(r) ==
    /\ r.pc = "done" /\ r.ends = 1
    /\ \/ r.sink = <<>> /\ r.status >= 400 /\ "error" \in DOMAIN r.body
       \/ r.sink # <<>> /\ r.sink[Len(r.sink)].type \in {"error", "done"}

\* C25: every admitted submission eventually terminates with its sink
\* closed, with a JSON error response, an in-band error event or [DONE],
\* when every provider call fails or yields a stream that emits end or error
\* and every store and cache call returns.
C25_AdmittedEventuallyEnds ==
    \A s \in Subs : (sub[s].pc = "find") ~> EndedAsSpecified(sub[s])

\* What the handlers give: an admitted submission ends as specified or is
\* left without an answer after both providers refused it with an HTTP
\* status.
EndsOrUnanswered ==
    \A s \in Subs :
        (sub[s].pc = "find") ~>
            \/ EndedAsSpecified(sub[s])
            \/ /\ sub[s].pc = "unanswered" /\ sub[s].ends = 0
               /\ sub[s].fallbackError.hasResponse
====
